---- MODULE Spec2Model ----
(***************************************************************************)
(* BackendClient of src/src/backend.py: the session state, the refresh     *)
(* coordinator (_refresh_auth), the authenticated call wrapper             *)
(* (_do_request_safe), the request executor (_do_request) and close().     *)
(*                                                                         *)
(* Scheduling is asyncio's: one thread, coroutines that run without        *)
(* interruption from one await to the next.  Every action below is one     *)
(* such uninterrupted stretch of one coroutine; the awaits are the HTTP    *)
(* requests (self.request / r.json) and asyncio.sleep in the wait loop.    *)
(***************************************************************************)
EXTENDS Integers, Sequences, FiniteSets, TLC

\* ------------------------------------------------------------------ bounds
\* The _do_request_safe calls made, and how far the clock runs.
NumCalls == 2
MaxNow == 3
\* The refreshes after which the callers make no further calls.
MaxRefreshes == 2

Calls == 1..NumCalls

\* --------------------------------------------------------------- constants
\* Python's None, for the scalar fields of the session state.
None == -1
\* The string '0' that restore_credentials stores when the bundle has no refreshTime.
StrZero == -2
CLUB_APPID == <<"CLUB_APPID">>
CHROME_USERAGENT == <<"CHROME_USERAGENT">>
\* A header whose value is None.
HNone == <<>>
\* What the server's clock is ahead of the local clock by.
ServerSkew == 5
\* expiration - serverTime of a session response.
TicketTTL == 1

\* The error kinds a request can end with: galaxy.http.handle_exception maps
\* 401 and 403 to the first two; every other failure is one kind here.
AuthenticationRequired == "AuthenticationRequired"
AccessDenied == "AccessDenied"
OtherError == "OtherError"
KeyError == "KeyError"
StoreError == "StoreError"
HttpErrors == {AuthenticationRequired, AccessDenied, OtherError}
\* The two kinds a 401 or 403 response is raised as.
AuthRejections == {AuthenticationRequired, AccessDenied}

\* The exception tuples of the two except clauses of _do_request_safe (lines
\* 88 and 93), each preceded by the tuple with AccessDenied left out.
FallbackErrorsNarrow == {AuthenticationRequired}
FallbackErrors == {AccessDenied, AuthenticationRequired}
AuthLostErrorsNarrow == {AuthenticationRequired}
AuthLostErrors == {AccessDenied, AuthenticationRequired}

\* The keyword arguments the endpoint methods pass to _do_request_safe:
\* none (get_friends, ...) or add_to_headers (post_sessions).
Kwargs == {"plain", "add_to_headers"}
AddToHeaders == ("Content-Type" :> <<"application/json">>)

VARIABLES
    self,        \* the BackendClient's fields
    task,        \* the _do_request_safe calls: position, locals, what each did
    now,         \* datetime.now()
    store,       \* what _refresh_auth last gave the plugin's store_credentials
    closing,     \* close(): "open", "sleeping" (inside time.sleep), "closed"
    refreshLog   \* the two-phase protocols started: how many, how the latest
                 \* ended, and whether the auth-lost callback was made on its
                 \* account

vars == <<self, task, now, store, closing, refreshLog>>

\* ------------------------------------------------------------ pure helpers
\* Python truthiness of an optional opaque string.
Truthy(v) == v # None

\* int(refresh_time)
IntOf(v) == IF v = StrZero THEN 0 ELSE v

Has(data, k) == k \in DOMAIN data

\* data.get(k): the value, or None
Get(data, k) == IF Has(data, k) THEN data[k] ELSE None

\* The expiry rule of _do_request_safe.
RefreshNeeded(refresh_token, refresh_time, n) ==
    IF ~Truthy(refresh_token)
    THEN refresh_time = None \/ n > IntOf(refresh_time)
    ELSE FALSE

\* restore_credentials with the optional fields assigned from data.get(...),
\* whether present or not.
RestoreCredentialsOverwriting(s, data) ==
    IF ~Has(data, "ticket") THEN [self |-> s, raised |-> TRUE]
    ELSE IF ~Has(data, "sessionId")
    THEN [self |-> [s EXCEPT !.token = data["ticket"]], raised |-> TRUE]
    ELSE IF ~Has(data, "userId")
    THEN [self |-> [s EXCEPT !.token = data["ticket"],
                             !.session_id = data["sessionId"]],
          raised |-> TRUE]
    ELSE [self |-> [s EXCEPT
                !.token = data["ticket"],
                !.session_id = data["sessionId"],
                !.user_id = data["userId"],
                !.user_name = Get(data, "username"),
                !.refresh_time = IF Has(data, "refreshTime")
                                 THEN data["refreshTime"] ELSE StrZero,
                !.refresh_token = Get(data, "rememberMeTicket"),
                !.headers = ("Ubi-AppId" :> CLUB_APPID)
                            @@ ("Authorization" :> <<"Ubi_v1", data["ticket"]>>)
                            @@ ("Ubi-SessionId" :> <<data["sessionId"]>>)],
          raised |-> FALSE]

\* restore_credentials, statement by statement: a missing required key raises
\* KeyError at the statement that reads it, with the earlier assignments done.
RestoreCredentials(s, data) ==
    IF ~Has(data, "ticket") THEN [self |-> s, raised |-> TRUE]
    ELSE IF ~Has(data, "sessionId")
    THEN [self |-> [s EXCEPT !.token = data["ticket"]], raised |-> TRUE]
    ELSE IF ~Has(data, "userId")
    THEN [self |-> [s EXCEPT !.token = data["ticket"],
                             !.session_id = data["sessionId"]],
          raised |-> TRUE]
    ELSE [self |-> [s EXCEPT
                !.token = data["ticket"],
                !.session_id = data["sessionId"],
                !.user_id = data["userId"],
                !.user_name = IF Truthy(Get(data, "username"))
                              THEN data["username"] ELSE @,
                !.refresh_time = IF Has(data, "refreshTime")
                                 THEN data["refreshTime"] ELSE StrZero,
                !.refresh_token = IF Truthy(Get(data, "rememberMeTicket"))
                                  THEN data["rememberMeTicket"] ELSE @,
                !.headers = ("Ubi-AppId" :> CLUB_APPID)
                            @@ ("Authorization" :> <<"Ubi_v1", data["ticket"]>>)
                            @@ ("Ubi-SessionId" :> <<data["sessionId"]>>)],
          raised |-> FALSE]

\* _handle_authorization_response with the fields updated and the session's
\* headers left as they were.
HandleAuthorizationResponseStaleHeaders(s, j, n) ==
    IF ~Has(j, "expiration") \/ ~Has(j, "serverTime")
    THEN [self |-> s, raised |-> TRUE]
    ELSE LET r == RestoreCredentials(s,
                    ("refreshTime" :> n + (j["expiration"] - j["serverTime"])) @@ j)
         IN [self |-> [r.self EXCEPT !.headers = s.headers], raised |-> r.raised]

\* _handle_authorization_response: refreshTime = now + (expiration - serverTime)
HandleAuthorizationResponse(s, j, n) ==
    IF ~Has(j, "expiration") \/ ~Has(j, "serverTime")
    THEN [self |-> s, raised |-> TRUE]
    ELSE RestoreCredentials(s,
            ("refreshTime" :> n + (j["expiration"] - j["serverTime"])) @@ j)

\* get_credentials with the refresh token left out of the bundle.
GetCredentialsNoRefreshToken(s) ==
    LET creds == ("ticket" :> s.token) @@ ("sessionId" :> s.session_id)
                 @@ ("rememberMeTicket" :> None)
                 @@ ("userId" :> s.user_id) @@ ("refreshTime" :> s.refresh_time)
    IN IF Truthy(s.user_name) THEN creds @@ ("username" :> s.user_name) ELSE creds

\* get_credentials
GetCredentials(s) ==
    LET creds == ("ticket" :> s.token) @@ ("sessionId" :> s.session_id)
                 @@ ("rememberMeTicket" :> s.refresh_token)
                 @@ ("userId" :> s.user_id) @@ ("refreshTime" :> s.refresh_time)
    IN IF Truthy(s.user_name) THEN creds @@ ("username" :> s.user_name) ELSE creds

\* The headers _do_request sends for a call that passes no 'headers': the
\* session's own dict, with add_to_headers written into that same dict.
RequestHeaders(h, kw) ==
    IF kw = "add_to_headers"
    THEN [k \in DOMAIN h \cup DOMAIN AddToHeaders |->
            IF k \in DOMAIN AddToHeaders THEN AddToHeaders[k] ELSE h[k]]
    ELSE h

\* ------------------------------------------------------------- the server
\* What refresh number r's phase p (1: remember-me POST, 2: ticket PUT) returns.
Ticket(r, p) == 10 * r + p
SessionId(r, p) == 10 * r + p + 2
RememberMe(r, p) == 10 * r + p + 4
UserId == 50
UserName == 60

SessionResponse(r, p, n) ==
    ("ticket" :> Ticket(r, p)) @@ ("sessionId" :> SessionId(r, p))
    @@ ("userId" :> UserId)
    @@ ("serverTime" :> n + ServerSkew)
    @@ ("expiration" :> n + ServerSkew + TicketTTL)

\* With a new rememberMeTicket, without one, or without a sessionId.
SessionResponses(r, p, n) ==
    { SessionResponse(r, p, n) @@ ("rememberMeTicket" :> RememberMe(r, p)),
      SessionResponse(r, p, n),
      [k \in DOMAIN SessionResponse(r, p, n) \ {"sessionId"} |->
            SessionResponse(r, p, n)[k]] }

\* The bundles restore_credentials is given from outside (stored credentials,
\* cookies): complete, without the optional fields, and without a sessionId.
StoredTicket == 90
StoredSessionId == 91
StoredRememberMe == 92
StoredRefreshTime == 2
BaseBundle ==
    ("ticket" :> StoredTicket) @@ ("sessionId" :> StoredSessionId)
    @@ ("userId" :> UserId)
Bundles ==
    { BaseBundle @@ ("rememberMeTicket" :> StoredRememberMe)
        @@ ("refreshTime" :> StoredRefreshTime) @@ ("username" :> UserName),
      BaseBundle @@ ("refreshTime" :> StoredRefreshTime),
      BaseBundle @@ ("username" :> UserName),
      ("ticket" :> StoredTicket) @@ ("userId" :> UserId) }

\* A request sent on a closed session fails, and never with 401/403.
Outcomes == IF closing = "closed" THEN {OtherError} ELSE {"ok"} \cup HttpErrors

\* ------------------------------------------------------------------- Init
\* A call slot: pc and the locals of _do_request_safe (kwargs, refresh_needed,
\* result), and what the call has done so far: requests made for the caller
\* (nreq), _refresh_auth calls (ncoord), its part in the refresh (role) and
\* which refresh that was (epi), how _refresh_auth ended (coordRet), whether
\* its first request was answered 401 or 403 (rejected), what ended the call:
\* the last response or the error the refresh raised (resp), its auth-lost
\* callbacks (cb), the Authorization header of its request in flight (sent:
\* the caller's request, or the POST or PUT of the refresh), and the refreshes
\* started before it began (startRef).
InitTask ==
    [pc |-> "idle", kwargs |-> "plain", refresh_needed |-> FALSE,
     result |-> "none",
     nreq |-> 0, ncoord |-> 0, role |-> "none", epi |-> 0, coordRet |-> "none",
     rejected |-> FALSE, resp |-> "none", cb |-> 0, sent |-> HNone,
     startRef |-> 0]

Init ==
    /\ self = [token |-> None, session_id |-> None, refresh_token |-> None,
               refresh_time |-> None, user_id |-> None, user_name |-> None,
               refresh_in_progress |-> FALSE,
               auth_lost_callback |-> FALSE,
               headers |-> ("Authorization" :> HNone) @@ ("Ubi-AppId" :> CLUB_APPID)
                           @@ ("User-Agent" :> CHROME_USERAGENT)
                           @@ ("Ubi-SessionId" :> HNone)]
    /\ task = [t \in Calls |-> InitTask]
    /\ now = 1
    /\ store = <<>>
    /\ closing = "open"
    /\ refreshLog = [count |-> 0, status |-> "none", lost |-> FALSE]

\* time.sleep in close() blocks the one thread: no coroutine runs meanwhile.
\* A call that reached its return or raise hands over to its caller in the
\* same uninterrupted stretch: nothing else runs before Return.
Runnable == closing # "sleeping" /\ \A t \in Calls : task[t].pc # "done"

\* ------------------------------------------------- _do_request_safe, pieces
\* The except clauses of _do_request_safe (lines 93-100): the auth-lost
\* callback, when one is registered, then the same error re-raised.
Propagate(c, s, err) ==
    [c EXCEPT !.pc = "done", !.result = err,
              !.cb = IF err \in AuthLostErrors /\ s.auth_lost_callback
                     THEN @ + 1 ELSE @]

\* Whether the callback was made on account of the latest refresh, after call
\* c ended.
NoteCallback(log, c) ==
    [log EXCEPT !.lost = IF c.cb > 0 /\ c.epi = log.count THEN TRUE ELSE @]

\* What the finally clause of _refresh_auth leaves in the flag.
FlagAfterFinally == FALSE

\* _do_request up to its await (lines 61-70), for a call without 'headers'.
DoRequest(t, c, s, pc) ==
    LET h == RequestHeaders(s.headers, c.kwargs) IN
    /\ self' = [s EXCEPT !.headers = h]
    /\ task' = [task EXCEPT ![t] =
                  [c EXCEPT !.pc = pc, !.nreq = @ + 1,
                            !.sent = h["Authorization"]]]

\* _refresh_auth without the test of the flag: every caller runs the protocol.
CallRefreshAuthUnguarded(t, c) ==
    /\ self' = [self EXCEPT !.refresh_in_progress = TRUE]
    /\ refreshLog' = [count |-> refreshLog.count + 1, status |-> "running",
                      lost |-> FALSE]
    /\ task' = [task EXCEPT ![t] =
                  [c EXCEPT !.pc = "rm_options", !.ncoord = @ + 1,
                            !.role = "owner", !.epi = refreshLog.count + 1]]

\* _refresh_auth up to its first await (lines 110-118, 126): a waiter goes to
\* sleep in the loop; otherwise the caller takes the flag and sends the
\* remember-me phase's preflight.
CallRefreshAuth(t, c) ==
    IF self.refresh_in_progress
    THEN /\ task' = [task EXCEPT ![t] =
                       [c EXCEPT !.pc = "wait", !.ncoord = @ + 1,
                                 !.role = "waiter", !.epi = refreshLog.count]]
         /\ UNCHANGED <<self, refreshLog>>
    ELSE /\ self' = [self EXCEPT !.refresh_in_progress = TRUE]
         /\ refreshLog' = [count |-> refreshLog.count + 1, status |-> "running",
                           lost |-> FALSE]
         /\ task' = [task EXCEPT ![t] =
                       [c EXCEPT !.pc = "rm_options", !.ncoord = @ + 1,
                                 !.role = "owner", !.epi = refreshLog.count + 1]]

\* The same with the flag cleared after the try block instead of in a finally
\* clause: an error leaves it set.
OwnerRaiseNoFinally(t, s, err) ==
    LET c == Propagate([task[t] EXCEPT !.coordRet = "raised", !.resp = err,
                                       !.sent = HNone], s, err) IN
    /\ self' = s
    /\ refreshLog' = NoteCallback([refreshLog EXCEPT !.status = "failed"], c)
    /\ task' = [task EXCEPT ![t] = c]
    /\ UNCHANGED <<now, store, closing>>

\* The same with the credentials stored in the finally clause as well.
OwnerRaiseSaving(t, s, err) ==
    LET c == Propagate([task[t] EXCEPT !.coordRet = "raised", !.resp = err,
                                       !.sent = HNone], s, err) IN
    /\ self' = [s EXCEPT !.refresh_in_progress = FlagAfterFinally]
    /\ store' = GetCredentials(s)
    /\ refreshLog' = NoteCallback([refreshLog EXCEPT !.status = "failed"], c)
    /\ task' = [task EXCEPT ![t] = c]
    /\ UNCHANGED <<now, closing>>

\* A phase of the owner's protocol raised err, with the session state as s:
\* the finally clause, then the except clauses of _do_request_safe.
OwnerRaise(t, s, err) ==
    LET c == Propagate([task[t] EXCEPT !.coordRet = "raised", !.resp = err,
                                       !.sent = HNone], s, err) IN
    /\ self' = [s EXCEPT !.refresh_in_progress = FlagAfterFinally]
    /\ refreshLog' = NoteCallback([refreshLog EXCEPT !.status = "failed"], c)
    /\ task' = [task EXCEPT ![t] = c]
    /\ UNCHANGED <<now, store, closing>>

\* ---------------------------------------------------------------- actions
\* _do_request_safe from its entry to its first await (lines 75-87).  The
\* calls are alike, so they are numbered in the order they begin.
Begin(t, kw) ==
    /\ Runnable
    /\ task[t].pc = "idle"
    /\ \A u \in Calls : u < t => task[u].pc # "idle"
    /\ LET rn == RefreshNeeded(self.refresh_token, self.refresh_time, now)
           c == [task[t] EXCEPT !.kwargs = kw, !.refresh_needed = rn,
                                !.startRef = refreshLog.count]
       IN IF rn
          THEN CallRefreshAuth(t, c)
          ELSE /\ DoRequest(t, c, self, "request_direct")
               /\ UNCHANGED refreshLog
    /\ UNCHANGED <<now, store, closing>>

\* The request of line 87 ends: returned, rejected (the fallback refresh of
\* lines 88-91), or failed otherwise.
DirectResponse(t, o) ==
    /\ Runnable
    /\ task[t].pc = "request_direct"
    /\ o \in Outcomes
    /\ LET c == [task[t] EXCEPT !.resp = o, !.sent = HNone,
                                !.rejected = (o \in AuthRejections)] IN
       IF o = "ok"
       THEN /\ task' = [task EXCEPT ![t] = [c EXCEPT !.pc = "done", !.result = "ok"]]
            /\ UNCHANGED <<self, refreshLog>>
       ELSE IF o \in FallbackErrors
       THEN CallRefreshAuth(t, [c EXCEPT !.resp = "none"])
       ELSE /\ task' = [task EXCEPT ![t] = Propagate(c, self, o)]
            /\ UNCHANGED <<self, refreshLog>>
    /\ UNCHANGED <<now, store, closing>>

\* asyncio.sleep(0.2) of the wait loop returns (lines 113-114): wait again
\* while the flag is set; otherwise _refresh_auth returns and the request is
\* made (line 84 or 92).
WaitPoll(t) ==
    /\ Runnable
    /\ task[t].pc = "wait"
    /\ IF self.refresh_in_progress
       THEN UNCHANGED <<self, task>>
       ELSE DoRequest(t, [task[t] EXCEPT !.coordRet = "ok"], self,
                      "request_after_refresh")
    /\ UNCHANGED <<now, store, closing, refreshLog>>

\* The request made after _refresh_auth returned, with a rejection answered
\* by another refresh and another request.
AfterRefreshResponseRetrying(t, o) ==
    /\ Runnable
    /\ task[t].pc = "request_after_refresh"
    /\ o \in Outcomes
    /\ IF o \in FallbackErrors
       THEN CallRefreshAuth(t, [task[t] EXCEPT !.sent = HNone])
       ELSE /\ task' = [task EXCEPT ![t] =
                          IF o = "ok"
                          THEN [task[t] EXCEPT !.resp = o, !.sent = HNone,
                                               !.pc = "done", !.result = "ok"]
                          ELSE Propagate([task[t] EXCEPT !.resp = o, !.sent = HNone],
                                         self, o)]
            /\ UNCHANGED <<self, refreshLog>>
    /\ UNCHANGED <<now, store, closing>>

\* The request made after _refresh_auth returned (line 84 or 92) ends.
AfterRefreshResponse(t, o) ==
    /\ Runnable
    /\ task[t].pc = "request_after_refresh"
    /\ o \in Outcomes
    /\ LET c == IF o = "ok"
                THEN [task[t] EXCEPT !.resp = o, !.sent = HNone,
                                     !.pc = "done", !.result = "ok"]
                ELSE Propagate([task[t] EXCEPT !.resp = o, !.sent = HNone], self, o)
       IN /\ task' = [task EXCEPT ![t] = c]
          /\ refreshLog' = NoteCallback(refreshLog, c)
    /\ UNCHANGED <<self, now, store, closing>>

\* The caller has the call's result or error.
Return(t) ==
    /\ task[t].pc = "done"
    /\ task' = [task EXCEPT ![t] = [InitTask EXCEPT !.pc = "returned"]]
    /\ UNCHANGED <<self, now, store, closing, refreshLog>>

\* The caller of a call that has ended calls an endpoint method again.
Again(t) ==
    /\ Runnable
    /\ task[t].pc = "returned"
    /\ refreshLog.count < MaxRefreshes
    /\ task' = [task EXCEPT ![t] = InitTask]
    /\ UNCHANGED <<self, now, store, closing, refreshLog>>

\* ------------------------------------------------ the two-phase protocol
\* The preflight of _refresh_remember_me ends (line 126); the POST is sent
\* with the refresh token of this moment (lines 127-143).
RememberMeOptionsResponse(t, o) ==
    /\ Runnable
    /\ task[t].pc = "rm_options"
    /\ o \in Outcomes
    /\ IF o = "ok"
       THEN /\ task' = [task EXCEPT ![t].pc = "rm_post",
                                    ![t].sent = <<"rm_v1", self.refresh_token>>]
            /\ UNCHANGED <<self, now, store, closing, refreshLog>>
       ELSE OwnerRaise(t, self, o)

\* The POST of _refresh_remember_me ends (lines 127-144, 148): the session
\* state is updated and the preflight of _refresh_ticket is sent.
RememberMeResponse(t, o, j) ==
    /\ Runnable
    /\ task[t].pc = "rm_post"
    /\ o \in Outcomes
    /\ j \in SessionResponses(task[t].epi, 1, now)
    /\ IF o = "ok"
       THEN LET r == HandleAuthorizationResponse(self, j, now) IN
            IF r.raised
            THEN OwnerRaise(t, r.self, KeyError)
            ELSE /\ self' = r.self
                 /\ task' = [task EXCEPT ![t].pc = "tk_options", ![t].sent = HNone]
                 /\ UNCHANGED <<now, store, closing, refreshLog>>
       ELSE OwnerRaise(t, self, o)

\* The preflight of _refresh_ticket ends (line 148); the PUT is sent with the
\* token of this moment (lines 149-163).
TicketOptionsResponse(t, o) ==
    /\ Runnable
    /\ task[t].pc = "tk_options"
    /\ o \in Outcomes
    /\ IF o = "ok"
       THEN /\ task' = [task EXCEPT ![t].pc = "tk_put",
                                    ![t].sent = <<"Ubi_v1", self.token>>]
            /\ UNCHANGED <<self, now, store, closing, refreshLog>>
       ELSE OwnerRaise(t, self, o)

\* The PUT of _refresh_ticket ends (lines 149-164, 120-122, then 84 or 92):
\* the session state is updated, the credentials are stored (saved says
\* whether store_credentials returned), the flag is released, and the
\* caller's request is made.
TicketResponse(t, o, j, saved) ==
    /\ Runnable
    /\ task[t].pc = "tk_put"
    /\ o \in Outcomes
    /\ j \in SessionResponses(task[t].epi, 2, now)
    /\ IF o = "ok"
       THEN LET r == HandleAuthorizationResponse(self, j, now) IN
            IF r.raised
            THEN OwnerRaise(t, r.self, KeyError)
            ELSE IF ~saved
            THEN OwnerRaise(t, r.self, StoreError)
            ELSE /\ store' = GetCredentials(r.self)
                 /\ refreshLog' = [refreshLog EXCEPT !.status = "ok"]
                 /\ DoRequest(t, [task[t] EXCEPT !.coordRet = "ok"],
                              [r.self EXCEPT !.refresh_in_progress = FlagAfterFinally],
                              "request_after_refresh")
                 /\ UNCHANGED <<now, closing>>
       ELSE OwnerRaise(t, self, o)

\* ------------------------------------------------------ the other callers
\* restore_credentials called with a stored or cookie bundle (lines 200, 219).
Restore(data) ==
    /\ Runnable
    /\ data \in Bundles
    /\ self' = RestoreCredentials(self, data).self
    /\ UNCHANGED <<task, now, store, closing, refreshLog>>

\* set_auth_lost_callback
SetAuthLostCallback ==
    /\ Runnable
    /\ ~self.auth_lost_callback
    /\ self' = [self EXCEPT !.auth_lost_callback = TRUE]
    /\ UNCHANGED <<task, now, store, closing, refreshLog>>

\* close() up to time.sleep or, with the flag clear, through session.close().
Close ==
    /\ Runnable
    /\ closing = "open"
    /\ closing' = IF self.refresh_in_progress THEN "sleeping" ELSE "closed"
    /\ UNCHANGED <<self, task, now, store, refreshLog>>

\* time.sleep(1.5) returns and the session is closed (lines 40-41).
CloseAfterSleep ==
    /\ closing = "sleeping"
    /\ closing' = "closed"
    /\ UNCHANGED <<self, task, now, store, refreshLog>>

\* The clock advances.
Tick ==
    /\ now < MaxNow
    /\ now' = now + 1
    /\ UNCHANGED <<self, task, store, closing, refreshLog>>

\* --------------------------------------------------------- specifications
\* The inputs of every specification: what a request can end with, the
\* well-formed session responses, the bundles of the login paths.
Results == {"ok"} \cup HttpErrors
GoodResponse(t, p) ==
    SessionResponse(task[t].epi, p, now)
        @@ ("rememberMeTicket" :> RememberMe(task[t].epi, p))
FullBundle ==
    BaseBundle @@ ("rememberMeTicket" :> StoredRememberMe)
        @@ ("refreshTime" :> StoredRefreshTime) @@ ("username" :> UserName)

\* The calls, the refresh protocol and the session's other callers.
Next ==
    \/ \E t \in Calls : Begin(t, "plain")
    \/ \E t \in Calls, o \in Results : DirectResponse(t, o)
    \/ \E t \in Calls : WaitPoll(t)
    \/ \E t \in Calls, o \in Results : AfterRefreshResponse(t, o)
    \/ \E t \in Calls : Return(t)
    \/ \E t \in Calls, o \in Results : RememberMeOptionsResponse(t, o)
    \/ \E t \in Calls, o \in Results : RememberMeResponse(t, o, GoodResponse(t, 1))
    \/ \E t \in Calls, o \in Results : TicketOptionsResponse(t, o)
    \/ \E t \in Calls, o \in Results, saved \in BOOLEAN :
         TicketResponse(t, o, GoodResponse(t, 2), saved)
    \/ Restore(FullBundle)
    \/ SetAuthLostCallback
    \/ Close
    \/ CloseAfterSleep

Spec == Init /\ [][Next]_vars

\* The same with the clock running and the other bundles of the login paths:
\* one without a rememberMeTicket, one with neither it nor a refreshTime.
ExpiringBundle == BaseBundle @@ ("refreshTime" :> StoredRefreshTime)
CookieBundle == BaseBundle @@ ("username" :> UserName)

NextClock ==
    \/ Next
    \/ Tick
    \/ Restore(ExpiringBundle)
    \/ Restore(CookieBundle)

SpecClock == Init /\ [][NextClock]_vars

\* The login paths and the session's headers: every bundle, the session
\* responses with and without their optional and required fields, calls with
\* and without add_to_headers; every request is answered.
LoginResults == {"ok"}

NextLogin ==
    \/ \E t \in Calls, kw \in Kwargs : Begin(t, kw)
    \/ \E t \in Calls, o \in LoginResults : DirectResponse(t, o)
    \/ \E t \in Calls : WaitPoll(t)
    \/ \E t \in Calls, o \in LoginResults : AfterRefreshResponse(t, o)
    \/ \E t \in Calls : Return(t)
    \/ \E t \in Calls : RememberMeOptionsResponse(t, "ok")
    \/ \E t \in Calls : \E j \in SessionResponses(task[t].epi, 1, now) :
         RememberMeResponse(t, "ok", j)
    \/ \E t \in Calls : TicketOptionsResponse(t, "ok")
    \/ \E t \in Calls : \E j \in SessionResponses(task[t].epi, 2, now) :
         TicketResponse(t, "ok", j, TRUE)
    \/ \E data \in Bundles : Restore(data)

SpecLogin == Init /\ [][NextLogin]_vars

\* Callers that call again: a session restored from a full bundle, requests
\* answered or rejected with a 401.
WaitResults == {"ok", AuthenticationRequired}

NextWait ==
    \/ \E t \in Calls : Begin(t, "plain")
    \/ \E t \in Calls, o \in WaitResults : DirectResponse(t, o)
    \/ \E t \in Calls : WaitPoll(t)
    \/ \E t \in Calls, o \in WaitResults : AfterRefreshResponse(t, o)
    \/ \E t \in Calls : Return(t)
    \/ \E t \in Calls : Again(t)
    \/ \E t \in Calls, o \in WaitResults : RememberMeOptionsResponse(t, o)
    \/ \E t \in Calls, o \in WaitResults : RememberMeResponse(t, o, GoodResponse(t, 1))
    \/ \E t \in Calls, o \in WaitResults : TicketOptionsResponse(t, o)
    \/ \E t \in Calls, o \in WaitResults :
         TicketResponse(t, o, GoodResponse(t, 2), TRUE)
    \/ Restore(FullBundle)

SpecWait == Init /\ [][NextWait]_vars

\* ------------------------------------------------------------------ claims
\* A call that is executing the two-phase protocol of _refresh_auth.
InProtocol(t) == task[t].pc \in {"rm_options", "rm_post", "tk_options", "tk_put"}

\* A call that has reached its return or raise.
Done(t) == task[t].pc = "done"

\* C1: at most one call executes the two-phase refresh protocol at a time, and
\* the refresh-in-progress flag is set exactly while one does.
C1_SingleRefresher ==
    /\ Cardinality({t \in Calls : InProtocol(t)}) <= 1
    /\ self.refresh_in_progress <=> \E t \in Calls : InProtocol(t)

\* C1, its case: one call owns the protocol while another, needing a refresh
\* too, waits in the loop.
C1_Witness ==
    \E t, u \in Calls : InProtocol(t) /\ task[u].pc = "wait"

\* C2: concurrent calls that each need a refresh share one refresh: a call
\* does not start a refresh of its own when a refresh started since the call
\* began has completed.
C2_OneRefreshForConcurrentCalls ==
    [][\A t \in Calls :
         (task[t].role # "owner" /\ task'[t].role = "owner"
            /\ refreshLog.count > task'[t].startRef)
         => refreshLog.status # "ok"]_vars

\* The expiry rule as specified: without a refresh token always refresh; with
\* one, refresh when no expiry is known or the clock is past it.
SpecifiedRefreshNeeded(refresh_token, refresh_time, n) ==
    IF ~Truthy(refresh_token)
    THEN TRUE
    ELSE refresh_time = None \/ n > IntOf(refresh_time)

\* C3: the decision a call takes on entry is the specified expiry rule's, for
\* the refresh token, the expiry and the clock of that moment.
C3_ExpiryRule ==
    [][\A t \in Calls :
         (task[t].pc = "idle" /\ task'[t].pc # "idle")
         => task'[t].refresh_needed
              = SpecifiedRefreshNeeded(self.refresh_token, self.refresh_time, now)]_vars

\* C4: a call that decided against a proactive refresh and whose request was
\* answered 401 or 403 calls _refresh_auth exactly once; when that returns it
\* makes the request exactly once more, and when the retry succeeds the call
\* returns its result, with no callback and no error.
C4_FallbackOnce ==
    \A t \in Calls :
        (~task[t].refresh_needed /\ task[t].rejected) =>
            /\ task[t].ncoord = 1
            /\ task[t].pc = "request_after_refresh" => task[t].nreq = 2
            /\ (Done(t) /\ task[t].coordRet = "ok") => task[t].nreq = 2
            /\ (Done(t) /\ task[t].coordRet = "ok" /\ task[t].resp = "ok")
                 => (task[t].result = "ok" /\ task[t].cb = 0)

\* C4, its case: rejected, refreshed, retried, and returned the retry's result.
C4_Witness ==
    \E t \in Calls :
        /\ Done(t) /\ ~task[t].refresh_needed /\ task[t].rejected
        /\ task[t].ncoord = 1 /\ task[t].nreq = 2 /\ task[t].result = "ok"

\* C5: a call makes its request at most twice and calls _refresh_auth at most
\* once; after a proactive refresh it makes the request exactly once, whatever
\* the answer.
C5_AtMostOneRetry ==
    \A t \in Calls :
        /\ task[t].nreq <= 2
        /\ task[t].ncoord <= 1
        /\ task[t].refresh_needed => task[t].nreq <= 1
        /\ (task[t].refresh_needed /\ task[t].coordRet = "ok") => task[t].nreq = 1

\* C5, its case: the request made after a proactive refresh is answered 401 or
\* 403 and the call ends there.
C5_Witness ==
    \E t \in Calls :
        /\ Done(t) /\ task[t].refresh_needed /\ task[t].coordRet = "ok"
        /\ task[t].resp \in AuthRejections /\ task[t].nreq = 1

\* C6: when the refresh, or the request made after it, fails with
\* AuthenticationRequired or AccessDenied, the call makes the registered
\* callback exactly once and raises that same error.
C6_AuthLostOnce ==
    \A t \in Calls :
        (Done(t) /\ task[t].resp \in AuthRejections) =>
            /\ task[t].result = task[t].resp
            /\ task[t].cb = IF self.auth_lost_callback THEN 1 ELSE 0

\* C6, its cases: the owner's refresh is rejected; a request made after the
\* refresh is rejected.
C6_Witness ==
    \E t \in Calls :
        /\ Done(t) /\ task[t].resp \in AuthRejections /\ task[t].cb = 1
        /\ task[t].role = "owner" /\ task[t].coordRet = "raised"

\* C7: the callback is made at most once on account of one failed refresh: a
\* call that makes it on account of the latest refresh is the first to.
C7_OneCallbackPerEpisode ==
    [][\A t \in Calls :
         (task'[t].cb > task[t].cb /\ task'[t].epi = refreshLog.count)
         => ~refreshLog.lost]_vars

\* C8: a caller that waited on a refresh that failed does not return normally
\* from _refresh_auth.
C8_WaitersSeeFailure ==
    \A t \in Calls :
        (task[t].role = "waiter" /\ task[t].coordRet = "ok"
            /\ task[t].epi = refreshLog.count)
        => refreshLog.status # "failed"

\* C9: a failure of store_credentials after both phases succeeded does not
\* reach the caller of _do_request_safe.
C9_SaveFailureNotRaised ==
    \A t \in Calls : task[t].result # StoreError

\* A step of the call that owns the refresh.
OwnerStep ==
    \E t \in Calls, o \in Results :
        \/ RememberMeOptionsResponse(t, o)
        \/ RememberMeResponse(t, o, GoodResponse(t, 1))
        \/ TicketOptionsResponse(t, o)
        \/ TicketResponse(t, o, GoodResponse(t, 2), TRUE)

\* C10: while close() waits for a refresh in progress, the refresh can advance.
C10_RefreshAdvancesDuringClose ==
    closing = "sleeping" => ENABLED OwnerStep

\* C11: ticket and sessionId are both present or both absent in every state,
\* and a restore_credentials that raises leaves the session state as it was.
C11_RestoreAtomic ==
    [][/\ Truthy(self'.token) <=> Truthy(self'.session_id)
       /\ \A data \in Bundles :
            (Restore(data) /\ RestoreCredentials(self, data).raised)
            => self' = self]_vars

\* C12: restore_credentials with a bundle that omits username or
\* rememberMeTicket leaves the stored username or refresh token as it was, and
\* no step resets either of them to absent.
C12_OmittedFieldsKept ==
    [][/\ \A data \in Bundles :
            (Restore(data) /\ ~RestoreCredentials(self, data).raised) =>
                /\ ~Has(data, "username") => self'.user_name = self.user_name
                /\ ~Has(data, "rememberMeTicket")
                     => self'.refresh_token = self.refresh_token
       /\ Truthy(self.user_name) => Truthy(self'.user_name)
       /\ Truthy(self.refresh_token) => Truthy(self'.refresh_token)]_vars

\* C12, its case: the bundle with neither field was restored over a username
\* from an earlier bundle and a refresh token from a refresh.
C12_Witness ==
    /\ self.token = StoredTicket /\ self.refresh_time = StoredRefreshTime
    /\ self.user_name = UserName
    /\ self.refresh_token \notin {None, StoredRememberMe}

\* C13: every request sent with the session's headers carries Ubi-AppId and
\* User-Agent, and once the client holds a ticket, Authorization: Ubi_v1
\* t=<ticket> and Ubi-SessionId: <sessionId>.
C13_RequestHeaders ==
    [][\A t \in Calls :
         task'[t].nreq > task[t].nreq =>
            /\ {"Ubi-AppId", "User-Agent"} \subseteq DOMAIN self'.headers
            /\ Truthy(self'.token) =>
                 /\ self'.headers["Authorization"] = <<"Ubi_v1", self'.token>>
                 /\ self'.headers["Ubi-SessionId"] = <<self'.session_id>>]_vars

\* C19: no request leaves its headers-to-add in the session's headers.
C19_SessionHeadersUnchanged ==
    [][/\ DOMAIN AddToHeaders \cap DOMAIN self'.headers = {}
       /\ \A t \in Calls :
            (task[t].pc \in {"idle", "wait"} /\ task'[t].nreq > task[t].nreq)
            => self' = self]_vars

\* C14: when a refresh completes both phases, the session's Authorization
\* header is Ubi_v1 t=<the ticket the PUT returned>, its Ubi-SessionId is the
\* sessionId the PUT returned, and the token and session_id fields are those
\* same two values.
C14_HeadersAfterRefresh ==
    [][\A t \in Calls :
         (task[t].pc = "tk_put" /\ task'[t].coordRet = "ok") =>
            /\ self'.token = Ticket(task[t].epi, 2)
            /\ self'.session_id = SessionId(task[t].epi, 2)
            /\ self'.headers["Authorization"] = <<"Ubi_v1", self'.token>>
            /\ self'.headers["Ubi-SessionId"] = <<self'.session_id>>]_vars

\* C14, its case: a refresh has completed, over a session restored from a
\* bundle before, and the owner's request is out with the new ticket.
C14_Witness ==
    \E t \in Calls :
        /\ task[t].role = "owner" /\ task[t].pc = "request_after_refresh"
        /\ self.user_name = UserName
        /\ task[t].sent = <<"Ubi_v1", Ticket(task[t].epi, 2)>>

\* C15: when the owner's run of the two-phase protocol ends, by success, by
\* an error of either phase or by an error of store_credentials, the flag is
\* clear; no refresh that has ended leaves it set.
C15_FlagReleased ==
    [][/\ \A t \in Calls :
            (InProtocol(t) /\ task'[t].pc \notin {"rm_options", "rm_post",
                                                   "tk_options", "tk_put"})
            => ~self'.refresh_in_progress
       /\ refreshLog'.status \in {"ok", "failed"} => ~self'.refresh_in_progress]_vars

\* C15, its case: store_credentials raised after both phases, and the flag is
\* clear.
C15_Witness ==
    \E t \in Calls :
        /\ Done(t) /\ task[t].role = "owner" /\ task[t].resp = StoreError
        /\ ~self.refresh_in_progress

\* C16: a caller in the wait loop waits for the refresh that was in progress
\* when it began to wait and for no other: no later refresh, started by
\* another caller between two of its polls, finds it still in the loop.
C16_WaitsForOneRefresh ==
    \A t \in Calls :
        task[t].pc = "wait" => task[t].epi = refreshLog.count

\* The bundle that mirrors the session state s.
Snapshot(s) ==
    [k \in {"ticket", "sessionId", "rememberMeTicket", "userId", "refreshTime"}
            \cup (IF s.user_name # None THEN {"username"} ELSE {}) |->
        CASE k = "ticket" -> s.token
          [] k = "sessionId" -> s.session_id
          [] k = "rememberMeTicket" -> s.refresh_token
          [] k = "userId" -> s.user_id
          [] k = "refreshTime" -> s.refresh_time
          [] k = "username" -> s.user_name]

\* C17: the refresh writes the credential store only in the step that completes
\* its second phase, after the session state has the PUT's ticket, and what it
\* writes is the session state of that moment; a refresh that fails in either
\* phase writes nothing.
C17_StoreAfterState ==
    [][/\ store' # store =>
            \E t \in Calls :
                /\ task[t].pc = "tk_put" /\ task'[t].coordRet = "ok"
                /\ self'.token = Ticket(task[t].epi, 2)
                /\ store' = Snapshot(self')
       /\ \A t \in Calls :
            (InProtocol(t) /\ task'[t].coordRet = "raised") => store' = store]_vars

\* C17, its case: a second refresh has completed over the bundle the first one
\* stored, and the store holds the second one's ticket.
C17_Witness ==
    \E t \in Calls :
        /\ task[t].role = "owner" /\ task[t].coordRet = "ok" /\ task[t].epi = 2
        /\ store # <<>> /\ store["ticket"] = Ticket(2, 2)

\* C18: within one refresh the steps come in the order preflight, POST with
\* the rm_v1 scheme, session state update, preflight, PUT, session state
\* update, save; the second phase starts only from a first phase that
\* succeeded, and the PUT's bearer is Ubi_v1 t=<the ticket the POST of the same
\* refresh returned>.
C18_PhaseOrderAndBearer ==
    [][/\ store' # store => \E t \in Calls : task[t].pc = "tk_put"
       /\ \A t \in Calls :
         /\ (task'[t].pc = "rm_post" /\ task[t].pc # "rm_post")
              => (task[t].pc = "rm_options" /\ task'[t].sent[1] = "rm_v1")
         /\ (task'[t].pc = "tk_options" /\ task[t].pc # "tk_options")
              => (task[t].pc = "rm_post" /\ self'.token = Ticket(task[t].epi, 1))
         /\ (task'[t].pc = "tk_put" /\ task[t].pc # "tk_put")
              => /\ task[t].pc = "tk_options"
                 /\ task'[t].sent = <<"Ubi_v1", Ticket(task[t].epi, 1)>>]_vars

\* A request of the second phase of call t's refresh fails in this step.
SecondPhaseFails(t) ==
    /\ task[t].pc \in {"tk_options", "tk_put"}
    /\ task'[t].coordRet = "raised"
    /\ task'[t].resp \in HttpErrors

\* The session state s holds what the first phase of refresh r returned.
HoldsPhaseOne(s, r) ==
    /\ s.token = Ticket(r, 1) /\ s.session_id = SessionId(r, 1)
    /\ s.refresh_token = RememberMe(r, 1)
    /\ s.headers["Authorization"] = <<"Ubi_v1", Ticket(r, 1)>>
    /\ s.headers["Ubi-SessionId"] = <<SessionId(r, 1)>>

====
